---- MODULE Spec2Model ----
(***************************************************************************)
(* Model of src/vector_store/insert_data.py: the script that provisions a  *)
(* Milvus collection (create_collection) and then ingests a Flickr dataset *)
(* into it one image at a time (insert_data), driven by main.              *)
(*                                                                         *)
(* The vector store, the image loader and the feature extractor are        *)
(* external: the store is modelled as a map from the names of the existing *)
(* collections to their schema and rows, and every external call is        *)
(* recorded, in order, in the call log `calls`.  Whether an external call  *)
(* succeeds is an input of the environment, chosen with \E.  A Python      *)
(* exception is not caught anywhere in the file, so a failing call ends    *)
(* the run (pc = "failed").                                                *)
(***************************************************************************)
EXTENDS Integers, Sequences, FiniteSets, TLC

\* ------------------------------------------------------------------ bounds
\* Largest dataset (number of image objects the dataset yields).
MaxItems == 3
\* Largest number of create_collection calls in ProvSpec.
MaxCalls == 2

\* ------------------------------------------------------- input value sets
\* Collection names (--collection_name).
Names == {"images", "other"}
\* --dimension is type=int: any integer parses, including 0 and negatives.
Dimensions == {-1, 0, 4, 8}
\* --metric_type is a free string.
Metrics == {"COSINE", "L2"}
\* --data_type: the two choices, "none" for an omitted option (the default
\* None, which argparse does not check against choices), and "coco" for a
\* value outside choices.
DataTypes == {"flickr8k", "flickr30k", "none", "coco"}
DataTypeChoices == {"flickr8k", "flickr30k"}
\* Length of the vector the feature extractor returns (fixed for a run).
EmbDims == {4, 8}
\* insert_count of an acknowledged single-record insert.
AckCounts == {0, 1}
\* The vector field name main passes (from .defaults).
DEFAULT_VECTOR_FIELD_NAME == "vector"
VectorFields == {"vector", "embedding"}

\* --------------------------------------------------------------- the store
\* A collection that exists before the run, with one row, a schema that
\* differs from anything main creates.
OldA ==
  [vector_field_name |-> "embedding", dimension |-> 8, metric_type |-> "L2",
   auto_id |-> FALSE, enable_dynamic_field |-> FALSE,
   rows |-> << [filename |-> <<"img", 0>>, caption |-> <<"cap", 0>>,
                vector_field |-> "embedding",
                vector |-> [k \in 1..8 |-> 0]] >>]
\* A collection that exists before the run with the schema main would
\* create for --dimension 4 --metric_type COSINE, and one row.
OldB ==
  [vector_field_name |-> "vector", dimension |-> 4, metric_type |-> "COSINE",
   auto_id |-> TRUE, enable_dynamic_field |-> TRUE,
   rows |-> << [filename |-> <<"img", 0>>, caption |-> <<"cap", 0>>,
                vector_field |-> "vector",
                vector |-> [k \in 1..4 |-> 0]] >>]

\* The stores a run can start from: any subset of the names exists.
InitStores ==
  UNION { [S -> {OldA, OldB}] : S \in SUBSET Names }

\* client.list_collections()
list_collections(st) == DOMAIN st

\* client.drop_collection(collection_name=...): the store after the call.
\* ok = FALSE: the store rejects the call (permission, connectivity).
drop_collection(st, collection_name, ok) ==
  IF ok
  THEN [n \in (DOMAIN st) \ {collection_name} |-> st[n]]
  ELSE st

\* The create call with auto_id left to the client's default.
NewCollection_defaults(vector_field_name, dimension, auto_id, enable_dynamic_field, metric_type) ==
  [vector_field_name |-> vector_field_name, dimension |-> dimension,
   metric_type |-> metric_type, auto_id |-> FALSE,
   enable_dynamic_field |-> enable_dynamic_field, rows |-> << >>]

\* The collection client.create_collection(...) asks for.
NewCollection(vector_field_name, dimension, auto_id, enable_dynamic_field, metric_type) ==
  [vector_field_name |-> vector_field_name, dimension |-> dimension,
   metric_type |-> metric_type, auto_id |-> auto_id,
   enable_dynamic_field |-> enable_dynamic_field, rows |-> << >>]

\* The schema of a collection (everything but its rows).
SchemaOf(c) ==
  [vector_field_name |-> c.vector_field_name, dimension |-> c.dimension,
   metric_type |-> c.metric_type, auto_id |-> c.auto_id,
   enable_dynamic_field |-> c.enable_dynamic_field]

\* Whether the store accepts client.create_collection(...): it rejects a
\* dimension that is not positive, and a name that exists with another
\* schema; ok = FALSE is a rejection for an outside reason.
create_accepted(st, collection_name, coll, ok) ==
  /\ ok
  /\ coll.dimension > 0
  /\ collection_name \in DOMAIN st => SchemaOf(st[collection_name]) = SchemaOf(coll)

\* client.create_collection(...): the store after the call.  Creating a
\* name that exists with the same schema leaves the collection as it is.
create_collection_call(st, collection_name, coll, ok) ==
  IF create_accepted(st, collection_name, coll, ok) /\ collection_name \notin DOMAIN st
  THEN [n \in (DOMAIN st) \cup {collection_name} |->
          IF n = collection_name THEN coll ELSE st[n]]
  ELSE st

\* Whether the store accepts client.insert(collection_name, data=[row]):
\* the collection must exist, the row must carry the collection's vector
\* field and the vector must have the collection's dimension.
insert_accepted(st, collection_name, row, ok) ==
  /\ ok
  /\ collection_name \in DOMAIN st
  /\ row.vector_field = st[collection_name].vector_field_name
  /\ Len(row.vector) = st[collection_name].dimension

\* An insert that replaces the rows of the collection by the new row.
insert_call_overwrite(st, collection_name, row, ack) ==
  IF ack >= 1
  THEN [st EXCEPT ![collection_name].rows = <<row>>]
  ELSE st

\* client.insert(...): the store after an accepted call acknowledged with
\* insert_count = ack.
insert_call(st, collection_name, row, ack) ==
  IF ack >= 1
  THEN [st EXCEPT ![collection_name].rows = Append(@, row)]
  ELSE st

\* ------------------------------------------------------- create_collection
\* The log lines create_collection writes.
SkipWarning(collection_name) ==
  [level |-> "warning", msg |-> "existing collection", collection_name |-> collection_name]
DroppedInfo(collection_name) ==
  [level |-> "info", msg |-> "dropped", collection_name |-> collection_name]

ListCall(st) == [op |-> "list_collections", result |-> list_collections(st)]
DropCall(collection_name, ok) ==
  [op |-> "drop_collection", collection_name |-> collection_name, ok |-> ok]
CreateCall(collection_name, coll, ok) ==
  [op |-> "create_collection", collection_name |-> collection_name,
   vector_field_name |-> coll.vector_field_name, dimension |-> coll.dimension,
   auto_id |-> coll.auto_id, enable_dynamic_field |-> coll.enable_dynamic_field,
   metric_type |-> coll.metric_type, ok |-> ok]

\* The early return taken when replacement is asked for (flag inverted).
skips_inverted(listed, collection_name, delete_existing_collection) ==
  collection_name \in listed /\ delete_existing_collection

\* Lines 65-66: the guard of the early return.
skips(listed, collection_name, delete_existing_collection) ==
  collection_name \in listed /\ ~delete_existing_collection

\* The drop issued whenever replacement is asked for, without looking at
\* the listed names.
drops_unlisted(listed, collection_name, delete_existing_collection) ==
  delete_existing_collection

\* The drop forgotten.
drops_never(listed, collection_name, delete_existing_collection) ==
  FALSE

\* Lines 65, 72-73: the guard of the drop.
drops(listed, collection_name, delete_existing_collection) ==
  collection_name \in listed /\ delete_existing_collection

\* create_collection with a rejected drop caught and ignored: the create
\* is issued all the same.
create_collection_drop_ignored(st, collection_name, vector_field_name, dimension, metric_type, delete_existing_collection, env) ==
  LET listed == list_collections(st)
      coll == NewCollection(vector_field_name, dimension, TRUE, TRUE, metric_type)
  IN
  IF skips(listed, collection_name, delete_existing_collection)
  THEN [store |-> st, calls |-> <<ListCall(st)>>,
        logs |-> <<SkipWarning(collection_name)>>, raised |-> FALSE]
  ELSE
    LET dropped == drops(listed, collection_name, delete_existing_collection)
        st1 == IF dropped THEN drop_collection(st, collection_name, env.drop_ok) ELSE st
        c1 == IF dropped
              THEN <<ListCall(st), DropCall(collection_name, env.drop_ok)>>
              ELSE <<ListCall(st)>>
        l1 == IF dropped /\ env.drop_ok THEN <<DroppedInfo(collection_name)>> ELSE << >>
        acc == create_accepted(st1, collection_name, coll, env.create_ok)
    IN [store |-> create_collection_call(st1, collection_name, coll, env.create_ok),
        calls |-> Append(c1, CreateCall(collection_name, coll, acc)),
        logs |-> l1, raised |-> ~acc]

\* create_collection(client, collection_name, vector_field_name, dimension,
\* metric_type, delete_existing_collection) run on store st, where the
\* store's answers to the drop and the create are env.drop_ok and
\* env.create_ok.  The result is the store afterwards, the calls made, the
\* lines logged and whether an exception left the function.
create_collection(st, collection_name, vector_field_name, dimension, metric_type, delete_existing_collection, env) ==
  LET listed == list_collections(st)
      coll == NewCollection(vector_field_name, dimension, TRUE, TRUE, metric_type)
  IN
  IF skips(listed, collection_name, delete_existing_collection)
  THEN [store |-> st, calls |-> <<ListCall(st)>>,
        logs |-> <<SkipWarning(collection_name)>>, raised |-> FALSE]
  ELSE IF drops(listed, collection_name, delete_existing_collection) /\ ~env.drop_ok
  THEN [store |-> drop_collection(st, collection_name, FALSE),
        calls |-> <<ListCall(st), DropCall(collection_name, FALSE)>>,
        logs |-> << >>, raised |-> TRUE]
  ELSE
    LET dropped == drops(listed, collection_name, delete_existing_collection)
        st1 == IF dropped THEN drop_collection(st, collection_name, TRUE) ELSE st
        c1 == IF dropped
              THEN <<ListCall(st), DropCall(collection_name, TRUE)>>
              ELSE <<ListCall(st)>>
        l1 == IF dropped THEN <<DroppedInfo(collection_name)>> ELSE << >>
        acc == create_accepted(st1, collection_name, coll, env.create_ok)
    IN [store |-> create_collection_call(st1, collection_name, coll, env.create_ok),
        calls |-> Append(c1, CreateCall(collection_name, coll, acc)),
        logs |-> l1, raised |-> ~acc]

\* The outcome of a create_collection call, read off what it logged and
\* whether it raised: the function itself returns None on every path.
Outcome(r) ==
  IF r.raised THEN "Error"
  ELSE IF \E k \in 1..Len(r.logs) : r.logs[k].level = "warning" THEN "Skipped"
  ELSE IF \E k \in 1..Len(r.logs) : r.logs[k].msg = "dropped" THEN "Replaced"
  ELSE "Created"

\* The answers of the store to a drop and a create.
Envs == [drop_ok : BOOLEAN, create_ok : BOOLEAN]

\* ------------------------------------------------------------- insert_data
\* The i-th image object of the dataset.
Item(i) == [image_path |-> <<"img", i>>, best_caption |-> <<"cap", i>>]

\* feature_extractor.get_image_features(image): a vector of the extractor's
\* length, different for different images.
get_image_features(image_path, dim) == [k \in 1..dim |-> image_path[2]]

\* The record with the caption stored under "filename" and the path under
\* "caption".
Row_swapped(image_object, vector_field_name, embeddings) ==
  [filename |-> image_object.best_caption, caption |-> image_object.image_path,
   vector_field |-> vector_field_name, vector |-> embeddings]

\* Lines 106-112: the one-record data of the insert call.
Row(image_object, vector_field_name, embeddings) ==
  [filename |-> image_object.image_path, caption |-> image_object.best_caption,
   vector_field |-> vector_field_name, vector |-> embeddings]

\* update_count without the guard of line 114.
update_count_unguarded(inserted_count, insert_count) ==
  inserted_count + insert_count

\* update_count that counts every acknowledged call as one record.
update_count_always(inserted_count, insert_count) ==
  inserted_count + 1

\* update_count with the acknowledged count dropped.
update_count_lost(inserted_count, insert_count) ==
  IF insert_count > 1 THEN inserted_count + insert_count ELSE inserted_count

\* Lines 114-115: the counter after an acknowledgment.
update_count(inserted_count, insert_count) ==
  IF insert_count > 0 THEN inserted_count + insert_count ELSE inserted_count

OpenCall(path, ok) == [op |-> "Image.open", path |-> path, ok |-> ok]
ExtractCall(path, ok) == [op |-> "get_image_features", image |-> path, ok |-> ok]
InsertCall(collection_name, row, ok, ack) ==
  [op |-> "insert", collection_name |-> collection_name, data |-> <<row>>,
   ok |-> ok, insert_count |-> ack]

\* What the environment does to one iteration: whether the image loads,
\* whether the extractor succeeds, whether the store takes the insert and
\* the count it acknowledges.
ItemEnvs == [load_ok : BOOLEAN, extract_ok : BOOLEAN, insert_ok : BOOLEAN, ack : AckCounts]

\* One iteration of the loop of insert_data (lines 94-115) for image_object.
\* The result is the store, the calls made, the counter and the error that
\* left the loop ("none" when the iteration finished).
iteration(st, image_object, collection_name, vector_field_name, dim, inserted_count, e) ==
  LET path == image_object.image_path
      embeddings == get_image_features(path, dim)
      row == Row(image_object, vector_field_name, embeddings)
      acc == insert_accepted(st, collection_name, row, e.insert_ok)
  IN
  IF ~e.load_ok
  THEN [store |-> st, calls |-> <<OpenCall(path, FALSE)>>,
        inserted_count |-> inserted_count, err |-> "ItemLoadError"]
  ELSE IF ~e.extract_ok
  THEN [store |-> st, calls |-> <<OpenCall(path, TRUE), ExtractCall(path, FALSE)>>,
        inserted_count |-> inserted_count, err |-> "ExtractionError"]
  ELSE IF ~acc
  THEN [store |-> st,
        calls |-> <<OpenCall(path, TRUE), ExtractCall(path, TRUE),
                    InsertCall(collection_name, row, FALSE, 0)>>,
        inserted_count |-> inserted_count, err |-> "InsertError"]
  ELSE [store |-> insert_call(st, collection_name, row, e.ack),
        calls |-> <<OpenCall(path, TRUE), ExtractCall(path, TRUE),
                    InsertCall(collection_name, row, TRUE, e.ack)>>,
        inserted_count |-> update_count(inserted_count, e.ack), err |-> "none"]

\* ------------------------------------------------------------------- state
VARIABLES
  store,           \* the vector store: existing collection name -> collection
  argv,            \* the command line of the run
  n_items,         \* len(dataset)
  emb_dim,         \* length of the vectors the extractor returns
  pc,              \* position of main
  err,             \* the error that ended the run, "none" if none
  calls,           \* the external calls made so far, in order
  logs,            \* the lines logged so far, in order
  idx,             \* iterations of the loop of insert_data that have finished
  inserted_count,  \* the local of insert_data
  hist             \* ProvSpec: the create_collection calls made so far

vars == <<store, argv, n_items, emb_dim, pc, err, calls, logs, idx, inserted_count, hist>>

\* The command lines: --collection_name, --dimension, --metric_type,
\* --delete_existing_collection, --data_type.
Argvs ==
  [collection_name : Names, dimension : Dimensions, metric_type : Metrics,
   delete_existing_collection : BOOLEAN, data_type : DataTypes]

Init ==
  /\ store \in InitStores
  /\ argv \in Argvs
  /\ n_items \in 0..MaxItems
  /\ emb_dim \in EmbDims
  /\ pc = "parse_args"
  /\ err = "none"
  /\ calls = << >>
  /\ logs = << >>
  /\ idx = 0
  /\ inserted_count = 0
  /\ hist = << >>

\* Line 122: the info line main logs once the arguments are parsed.
\* pprint.pp prints the arguments and returns None, so the line logged
\* reads "... arguments: None" whatever the arguments are.
RunningInfo ==
  [level |-> "info", msg |-> "running insert operation", arguments |-> "None"]

\* main, lines 121-128: parse_args, where argparse exits on a --data_type
\* outside choices, then the info line of line 122.
ParseArgs ==
  /\ pc = "parse_args"
  /\ IF argv.data_type \in DataTypeChoices \cup {"none"}
     THEN pc' = "create_collection" /\ err' = err /\ logs' = Append(logs, RunningInfo)
     ELSE pc' = "failed" /\ err' = "SystemExit" /\ logs' = logs
  /\ UNCHANGED <<store, argv, n_items, emb_dim, calls, idx, inserted_count, hist>>

\* The call of create_collection with its exception caught and ignored.
CreateCollection_swallow ==
  /\ pc = "create_collection"
  /\ \E env \in Envs :
       LET r == create_collection(store, argv.collection_name, DEFAULT_VECTOR_FIELD_NAME,
                                  argv.dimension, argv.metric_type,
                                  argv.delete_existing_collection, env)
       IN /\ store' = r.store
          /\ calls' = calls \o r.calls
          /\ logs' = logs \o r.logs
          /\ pc' = "dispatch"
          /\ err' = err
  /\ UNCHANGED <<argv, n_items, emb_dim, idx, inserted_count, hist>>

\* main, lines 131-138: the call of create_collection.
CreateCollection ==
  /\ pc = "create_collection"
  /\ \E env \in Envs :
       LET r == create_collection(store, argv.collection_name, DEFAULT_VECTOR_FIELD_NAME,
                                  argv.dimension, argv.metric_type,
                                  argv.delete_existing_collection, env)
       IN /\ store' = r.store
          /\ calls' = calls \o r.calls
          /\ logs' = logs \o r.logs
          /\ IF r.raised
             THEN pc' = "failed" /\ err' = "ProvisioningError"
             ELSE pc' = "dispatch" /\ err' = err
  /\ UNCHANGED <<argv, n_items, emb_dim, idx, inserted_count, hist>>

\* Whether create_collection took its early return (the warning of lines
\* 67-70 is in the log).
Skipped == \E k \in 1..Len(logs) : logs[k].level = "warning"

\* main, lines 141-160: the dataset is built and insert_data entered (line
\* 93), or ValueError raised for any other data type.
Dispatch ==
  /\ pc = "dispatch"
  /\ IF argv.data_type \in DataTypeChoices
     THEN pc' = "insert_data" /\ err' = err
     ELSE pc' = "failed" /\ err' = "ValueError"
  /\ inserted_count' = 0
  /\ idx' = 0
  /\ UNCHANGED <<store, argv, n_items, emb_dim, calls, logs, hist>>

\* insert_data, lines 94-115: one iteration of the loop.
InsertItem ==
  /\ pc = "insert_data"
  /\ idx < n_items
  /\ \E e \in ItemEnvs :
       LET r == iteration(store, Item(idx + 1), argv.collection_name,
                          DEFAULT_VECTOR_FIELD_NAME, emb_dim, inserted_count, e)
       IN /\ store' = r.store
          /\ calls' = calls \o r.calls
          /\ inserted_count' = r.inserted_count
          /\ IF r.err = "none"
             THEN pc' = pc /\ err' = err /\ idx' = idx + 1
             ELSE pc' = "failed" /\ err' = r.err /\ idx' = idx
  /\ UNCHANGED <<argv, n_items, emb_dim, logs, hist>>

\* insert_data, line 116: the dataset is exhausted and the count is logged.
Finish ==
  /\ pc = "insert_data"
  /\ idx = n_items
  /\ logs' = Append(logs, [level |-> "info", msg |-> "inserted", count |-> inserted_count])
  /\ pc' = "done"
  /\ UNCHANGED <<store, argv, n_items, emb_dim, err, calls, idx, inserted_count, hist>>

Next ==
  \/ ParseArgs
  \/ CreateCollection
  \/ Dispatch
  \/ InsertItem
  \/ Finish

Spec == Init /\ [][Next]_vars

\* ---------------------------------------------------------------- ProvSpec
\* create_collection called repeatedly, with any arguments, on one store.
\* The schemas asked for: two valid ones that differ in every field, one
\* that differs from the first in the dimension alone, and two whose
\* dimension is not positive.
ProvSchemas ==
  { [vector_field_name |-> "vector", dimension |-> 4, metric_type |-> "COSINE"],
    [vector_field_name |-> "embedding", dimension |-> 8, metric_type |-> "L2"],
    [vector_field_name |-> "vector", dimension |-> 8, metric_type |-> "COSINE"],
    [vector_field_name |-> "vector", dimension |-> 0, metric_type |-> "L2"],
    [vector_field_name |-> "embedding", dimension |-> -1, metric_type |-> "COSINE"] }

ProvArgs ==
  { [collection_name |-> n, vector_field_name |-> s.vector_field_name,
     dimension |-> s.dimension, metric_type |-> s.metric_type,
     delete_existing_collection |-> d] :
    n \in Names, s \in ProvSchemas, d \in BOOLEAN }

ProvInit ==
  /\ store \in InitStores
  /\ argv = CHOOSE a \in Argvs : TRUE
  /\ n_items = 0
  /\ emb_dim = CHOOSE d \in EmbDims : TRUE
  /\ pc = "provision"
  /\ err = "none"
  /\ calls = << >>
  /\ logs = << >>
  /\ idx = 0
  /\ inserted_count = 0
  /\ hist = << >>

Provision ==
  /\ pc = "provision"
  /\ Len(hist) < MaxCalls
  /\ \E a \in ProvArgs, env \in Envs :
       LET r == create_collection(store, a.collection_name, a.vector_field_name,
                                  a.dimension, a.metric_type,
                                  a.delete_existing_collection, env)
       IN /\ store' = r.store
          /\ hist' = Append(hist, [args |-> a, before |-> store, after |-> r.store,
                                   calls |-> r.calls, logs |-> r.logs,
                                   raised |-> r.raised, outcome |-> Outcome(r)])
  /\ UNCHANGED <<argv, n_items, emb_dim, pc, err, calls, logs, idx, inserted_count>>

ProvNext == Provision

ProvSpec == ProvInit /\ [][ProvNext]_vars

\* --------------------------------------------------------------- CountSpec
\* The loop of insert_data on a collection main has just created, with a
\* store whose acknowledgment may carry any small insert_count, negative
\* ones and counts above the one record sent included.
WideAcks == {-1, 0, 1, 2}
WideItemEnvs == [load_ok : BOOLEAN, extract_ok : BOOLEAN, insert_ok : BOOLEAN, ack : WideAcks]

CountInit ==
  /\ argv = [collection_name |-> "images", dimension |-> 4, metric_type |-> "COSINE",
             delete_existing_collection |-> FALSE, data_type |-> "flickr8k"]
  /\ store = [n \in {"images"} |->
                NewCollection(DEFAULT_VECTOR_FIELD_NAME, 4, TRUE, TRUE, "COSINE")]
  /\ n_items = MaxItems
  /\ emb_dim \in EmbDims
  /\ pc = "insert_data"
  /\ err = "none"
  /\ calls = << >>
  /\ logs = << >>
  /\ idx = 0
  /\ inserted_count = 0
  /\ hist = << >>

\* One iteration of the loop, recorded with the counter before and after.
CountIterate ==
  /\ pc = "insert_data"
  /\ idx < n_items
  /\ \E e \in WideItemEnvs :
       LET r == iteration(store, Item(idx + 1), argv.collection_name,
                          DEFAULT_VECTOR_FIELD_NAME, emb_dim, inserted_count, e)
       IN /\ store' = r.store
          /\ calls' = calls \o r.calls
          /\ inserted_count' = r.inserted_count
          /\ hist' = Append(hist, [err |-> r.err, ack |-> e.ack,
                                   before |-> inserted_count, after |-> r.inserted_count])
          /\ IF r.err = "none"
             THEN pc' = pc /\ err' = err /\ idx' = idx + 1
             ELSE pc' = "failed" /\ err' = r.err /\ idx' = idx
  /\ UNCHANGED <<argv, n_items, emb_dim, logs>>

CountNext == CountIterate \/ Finish

CountSpec == CountInit /\ [][CountNext]_vars

\* ------------------------------------------------------------------ claims
\* Number of calls of operation op in the call log s.
Count(s, op) == Cardinality({k \in 1..Len(s) : s[k].op = op})

\* The errors that leave one iteration of the loop.
ItemErrors == {"ItemLoadError", "ExtractionError", "InsertError"}

\* Every call of the store's provisioning endpoints and of the loop so far
\* succeeded, except those of the operations in `but`.
AllOkBut(s, but) == \A k \in 1..Len(s) : s[k].op \in but \/ s[k].op = "list_collections" \/ s[k].ok

\* Every insert so far was acknowledged with count 1.
AllAckedOne == \A k \in 1..Len(calls) : calls[k].op = "insert" => calls[k].insert_count = 1

\* C1 (as stated): when create_collection finds the name and
\* delete_existing_collection is false (it skips), the run makes no call to
\* the extractor and no insert call.
C1_SkipBlocksIngestion ==
  Skipped => Count(calls, "get_image_features") = 0 /\ Count(calls, "insert") = 0

\* K of C4: the items that failed at image load or at extraction.
FailedLoadOrExtract ==
  Cardinality({k \in 1..Len(calls) :
                 calls[k].op \in {"Image.open", "get_image_features"} /\ ~calls[k].ok})

\* C4 (as stated): in a run that entered insert_data and is over, in which
\* K items failed at image load or extraction and every other step
\* succeeded (each insert acknowledged with 1), no exception ended the run
\* early: all n_items iterations finished and inserted_count = n_items - K.
C4_PartialFailureIsolation ==
  (/\ pc \in {"done", "failed"}
   /\ Count(calls, "Image.open") > 0
   /\ AllOkBut(calls, {"Image.open", "get_image_features"})
   /\ AllAckedOne)
  => /\ pc = "done"
     /\ idx = n_items
     /\ inserted_count = n_items - FailedLoadOrExtract

\* C5 (as stated): in a run that entered insert_data and is over, in which
\* the extractor's vectors do not have the collection's dimension and every
\* load and extraction succeeded, each rejected insert is a per-item
\* failure: all n_items iterations finished and inserted_count = 0.
C5_DimensionConsistency ==
  (/\ pc \in {"done", "failed"}
   /\ Count(calls, "Image.open") > 0
   /\ argv.collection_name \in DOMAIN store
   /\ store[argv.collection_name].vector_field_name = DEFAULT_VECTOR_FIELD_NAME
   /\ store[argv.collection_name].dimension # emb_dim
   /\ AllOkBut(calls, {"insert"}))
  => /\ pc = "done"
     /\ idx = n_items
     /\ inserted_count = 0

\* C6: in a run that finished insert_data with every insert acknowledged
\* with count 1 (no load, extraction or insert failed, or the run would not
\* have finished), all n_items iterations finished, inserted_count =
\* n_items, and exactly n_items extractor calls and n_items insert calls of
\* one record each were made.
C6_CountConservation ==
  (pc = "done" /\ AllAckedOne) =>
    /\ idx = n_items
    /\ inserted_count = n_items
    /\ Count(calls, "Image.open") = n_items
    /\ Count(calls, "get_image_features") = n_items
    /\ Count(calls, "insert") = n_items
    /\ \A k \in 1..Len(calls) : calls[k].op = "insert" => Len(calls[k].data) = 1 /\ calls[k].ok

\* C6 witness: a finished run over MaxItems images, all inserted.
C6_Witness ==
  /\ pc = "done"
  /\ AllAckedOne
  /\ n_items = MaxItems
  /\ inserted_count = MaxItems

\* C7 (as stated): with a --data_type that is not one of the two supported
\* formats (a value outside choices, or the option omitted), the run ends
\* with an error and has made no store call.
C7_BadDataTypeNoStoreCall ==
  argv.data_type \notin DataTypeChoices =>
    /\ calls = << >>
    /\ pc \in {"done", "failed"} => (pc = "failed" /\ err \in {"SystemExit", "ValueError"})

\* The operations of a call log, in order.
Ops(s) == [k \in 1..Len(s) |-> s[k].op]

\* The collection a create_collection call with arguments a asks for.
Asked(a) ==
  [vector_field_name |-> a.vector_field_name, dimension |-> a.dimension,
   metric_type |-> a.metric_type, auto_id |-> TRUE, enable_dynamic_field |-> TRUE,
   rows |-> << >>]

\* C2: of two consecutive create_collection calls on the same name with
\* delete_existing_collection false, the first on a store without the name
\* and accepted by the store, the first creates (outcome Created) and the
\* second skips (outcome Skipped): the second issues no drop and no create
\* and leaves the store, so the collection's schema, as the first left it,
\* whatever schema the second call asks for.
C2_IdempotentProvisioning ==
  \A k \in 1..(Len(hist) - 1) :
    LET a == hist[k]
        b == hist[k + 1]
        name == a.args.collection_name
    IN (/\ b.args.collection_name = name
        /\ ~a.args.delete_existing_collection
        /\ ~b.args.delete_existing_collection
        /\ name \notin DOMAIN a.before
        /\ ~a.raised)
       => /\ a.outcome = "Created"
          /\ b.outcome = "Skipped"
          /\ Ops(b.calls) = <<"list_collections">>
          /\ b.after = a.after
          /\ name \in DOMAIN b.after
          /\ SchemaOf(b.after[name]) = SchemaOf(Asked(a.args))

\* C2 witness: Created then Skipped, the second call asking for a schema
\* that differs in dimension, metric and vector field.
C2_Witness ==
  /\ Len(hist) = 2
  /\ hist[1].args.collection_name = hist[2].args.collection_name
  /\ hist[1].args.collection_name \notin DOMAIN hist[1].before
  /\ ~hist[1].args.delete_existing_collection
  /\ ~hist[2].args.delete_existing_collection
  /\ hist[1].outcome = "Created"
  /\ hist[2].outcome = "Skipped"
  /\ hist[1].args.dimension # hist[2].args.dimension
  /\ hist[1].args.metric_type # hist[2].args.metric_type
  /\ hist[1].args.vector_field_name # hist[2].args.vector_field_name

\* C3: after a create_collection call with delete_existing_collection true
\* on a name that exists, in which the store accepted the drop and the
\* create, the name holds a collection with exactly the schema asked for
\* (vector field, dimension, metric, auto_id and dynamic fields on) and no
\* rows, whatever the old collection was.
C3_ReplacementCorrectness ==
  \A k \in 1..Len(hist) :
    LET h == hist[k]
        name == h.args.collection_name
    IN (/\ h.args.delete_existing_collection
        /\ name \in DOMAIN h.before
        /\ \A j \in 2..Len(h.calls) : h.calls[j].ok)
       => /\ ~h.raised
          /\ Count(h.calls, "create_collection") = 1
          /\ name \in DOMAIN h.after
          /\ h.after[name] = Asked(h.args)

\* C3 witness: a replacement of a collection that had a row and another
\* dimension.
C3_Witness ==
  \E k \in 1..Len(hist) :
    LET h == hist[k]
        name == h.args.collection_name
    IN /\ h.args.delete_existing_collection
       /\ name \in DOMAIN h.before
       /\ ~h.raised
       /\ Len(h.before[name].rows) = 1
       /\ h.before[name].dimension # h.args.dimension
       /\ h.after[name].dimension = h.args.dimension

\* C8 (as stated): a create_collection call with dimension <= 0 is rejected
\* with an error and leaves the store as it was, whether or not the name
\* exists and for both values of delete_existing_collection.
C8_BadDimensionRejected ==
  \A k \in 1..Len(hist) :
    hist[k].args.dimension <= 0 =>
      /\ hist[k].raised
      /\ hist[k].after = hist[k].before

\* C9: in a create_collection call with delete_existing_collection true on
\* a name that exists, exactly one drop is issued, on that name, right after
\* the listing; a create is issued only after that drop has succeeded, and
\* at most one; when the call returns, the calls were list, drop, create in
\* that order and the outcome is Replaced.  In every other call no drop is
\* issued.
C9_ReplaceOrdering ==
  \A k \in 1..Len(hist) :
    LET h == hist[k]
        name == h.args.collection_name
    IN IF h.args.delete_existing_collection /\ name \in DOMAIN h.before
       THEN /\ Len(h.calls) >= 2
            /\ h.calls[2].op = "drop_collection"
            /\ h.calls[2].collection_name = name
            /\ Count(h.calls, "drop_collection") = 1
            /\ Count(h.calls, "create_collection") = (IF h.calls[2].ok THEN 1 ELSE 0)
            /\ h.calls[2].ok => Ops(h.calls) = <<"list_collections", "drop_collection", "create_collection">>
            /\ ~h.raised => /\ h.calls[2].ok
                            /\ h.outcome = "Replaced"
            /\ h.outcome \in {"Replaced", "Error"}
       ELSE /\ Count(h.calls, "drop_collection") = 0
            /\ h.outcome # "Replaced"

\* C9 witness: a replacement that returned.
C9_Witness ==
  \E k \in 1..Len(hist) :
    /\ hist[k].outcome = "Replaced"
    /\ Ops(hist[k].calls) = <<"list_collections", "drop_collection", "create_collection">>

\* C10: a create_collection call on a name the store does not list issues
\* no drop: it lists, then issues one create with the given vector field,
\* dimension and metric and with auto_id and dynamic fields on.  It raises
\* only when the store rejects that create; otherwise the store gains
\* exactly the collection asked for, empty, and the outcome is Created.
\* Nothing of this depends on delete_existing_collection.
C10_CreateWhenAbsent ==
  \A k \in 1..Len(hist) :
    LET h == hist[k]
        name == h.args.collection_name
    IN name \notin DOMAIN h.before =>
         /\ Ops(h.calls) = <<"list_collections", "create_collection">>
         /\ h.calls[2].collection_name = name
         /\ h.calls[2].vector_field_name = h.args.vector_field_name
         /\ h.calls[2].dimension = h.args.dimension
         /\ h.calls[2].metric_type = h.args.metric_type
         /\ h.calls[2].auto_id
         /\ h.calls[2].enable_dynamic_field
         /\ h.raised = ~h.calls[2].ok
         /\ h.calls[2].ok =>
              /\ h.outcome = "Created"
              /\ DOMAIN h.after = DOMAIN h.before \cup {name}
              /\ h.after[name] = Asked(h.args)
              /\ \A n \in DOMAIN h.before : h.after[n] = h.before[n]
         /\ ~h.calls[2].ok => h.after = h.before

\* C10 witness: a creation on an absent name with
\* delete_existing_collection true.
C10_Witness ==
  \E k \in 1..Len(hist) :
    /\ hist[k].args.collection_name \notin DOMAIN hist[k].before
    /\ hist[k].args.delete_existing_collection
    /\ hist[k].outcome = "Created"
    /\ hist[k].args.collection_name \in DOMAIN hist[k].after

\* The operations of the store's provisioning endpoints and of the loop.
ProvOps == {"list_collections", "drop_collection", "create_collection"}
LoopOps == {"Image.open", "get_image_features", "insert"}

\* C11: create_collection runs at most once in a run, and exactly once in
\* every run that got past argument parsing (one listing of the
\* collections); every call of the loop (load, extraction, insert) comes
\* after every provisioning call; and when the store rejected the drop or
\* the create, the run has failed and made no extractor call and no insert
\* call.
C11_ProvisioningGatesIngestion ==
  /\ Count(calls, "list_collections") <= 1
  /\ pc \in {"dispatch", "insert_data", "done"} => Count(calls, "list_collections") = 1
  /\ (pc = "failed" /\ err # "SystemExit") => Count(calls, "list_collections") = 1
  /\ \A j, k \in 1..Len(calls) :
       (calls[j].op \in ProvOps /\ calls[k].op \in LoopOps) => j < k
  /\ Count(calls, "insert") > 0 => pc \in {"insert_data", "done", "failed"}
  /\ (\E k \in 1..Len(calls) : calls[k].op \in {"drop_collection", "create_collection"} /\ ~calls[k].ok)
       => /\ pc = "failed"
          /\ err = "ProvisioningError"
          /\ Count(calls, "Image.open") = 0
          /\ Count(calls, "get_image_features") = 0
          /\ Count(calls, "insert") = 0

\* C11 witness: a run that failed in provisioning because the store
\* rejected the create that followed an accepted drop, on a dataset that
\* has images.
C11_Witness ==
  /\ pc = "failed"
  /\ err = "ProvisioningError"
  /\ n_items > 0
  /\ argv.data_type \in DataTypeChoices
  /\ Ops(calls) = <<"list_collections", "drop_collection", "create_collection">>
  /\ ~calls[3].ok

\* Sum of the acknowledged counts of the first n calls of s that are
\* insert calls the store accepted.
RECURSIVE AckSum(_, _)
AckSum(s, n) ==
  IF n = 0 THEN 0
  ELSE AckSum(s, n - 1) +
       (IF s[n].op = "insert" /\ s[n].ok THEN s[n].insert_count ELSE 0)

\* C12: at every point of a run inserted_count is the sum of the
\* acknowledged counts of the accepted insert calls so far (a failed load,
\* extraction or insert adds nothing), 0 <= inserted_count <= idx <=
\* n_items with idx the number of finished iterations, and no step
\* decreases inserted_count.
C12_CounterInvariant ==
  /\ [](/\ inserted_count = AckSum(calls, Len(calls))
        /\ 0 <= inserted_count
        /\ inserted_count <= idx
        /\ idx <= n_items
        /\ idx = Cardinality({k \in 1..Len(calls) : calls[k].op = "insert" /\ calls[k].ok}))
  /\ [][inserted_count' >= inserted_count]_vars

\* C12 witness: a run that failed at its third item after one insert
\* acknowledged with 1 and one acknowledged with 0.
C12_Witness ==
  /\ pc = "failed"
  /\ err \in ItemErrors
  /\ idx = 2
  /\ inserted_count = 1

\* The calls of the loop, in order (the calls after provisioning).
LoopCalls == SelectSeq(calls, LAMBDA c : c.op \in LoopOps)

\* The item the j-th call of the loop belongs to, with three calls an item.
ItemOf(j) == ((j - 1) \div 3) + 1

\* The rows of the target collection that carry a dataset image.
DatasetRows ==
  IF argv.collection_name \in DOMAIN store
  THEN SelectSeq(store[argv.collection_name].rows, LAMBDA r : r.filename[2] >= 1)
  ELSE << >>

\* The records of the accepted insert calls acknowledged with a count >= 1.
AckedRecords ==
  LET acked == SelectSeq(calls, LAMBDA c : c.op = "insert" /\ c.ok /\ c.insert_count >= 1)
  IN [k \in 1..Len(acked) |-> acked[k].data[1]]

\* C13: the calls of the loop are, item after item in dataset order, the
\* load, the extraction and the insert of that item, each begun only after
\* the one before it succeeded (only the last call made can have failed);
\* every insert carries exactly one record, made of the item's image path,
\* its best caption and its embedding under the vector field name; and the
\* records are in the store in dataset order.
C13_StrictlySequential ==
  LET L == LoopCalls IN
  /\ \A j \in 1..Len(L) :
       LET i == ItemOf(j)
           step == ((j - 1) % 3) + 1
       IN /\ i <= n_items
          /\ j < Len(L) => L[j].ok
          /\ step = 1 => L[j].op = "Image.open" /\ L[j].path = <<"img", i>>
          /\ step = 2 => L[j].op = "get_image_features" /\ L[j].image = <<"img", i>>
          /\ step = 3 =>
               /\ L[j].op = "insert"
               /\ L[j].collection_name = argv.collection_name
               /\ Len(L[j].data) = 1
               /\ L[j].data[1].filename = <<"img", i>>
               /\ L[j].data[1].caption = <<"cap", i>>
               /\ L[j].data[1].vector_field = DEFAULT_VECTOR_FIELD_NAME
               /\ L[j].data[1].vector = [k \in 1..emb_dim |-> i]
  /\ DatasetRows = AckedRecords
  /\ \A a, b \in 1..Len(DatasetRows) :
       a < b => DatasetRows[a].filename[2] < DatasetRows[b].filename[2]

\* C13 witness: a finished run over three images, all stored.
C13_Witness ==
  /\ pc = "done"
  /\ n_items = 3
  /\ Len(LoopCalls) = 9
  /\ Len(DatasetRows) = 3

\* The final count was logged this many times.
Reports == Cardinality({k \in 1..Len(logs) : logs[k].msg = "inserted"})

\* C14 (as stated): whatever items succeed or fail, a run of insert_data
\* that is over has visited every item of the dataset exactly once, has
\* made at most n_items extractor calls and at most n_items insert calls,
\* and has reported the final count once.
C14_TerminationSinglePass ==
  (pc = "done" \/ (pc = "failed" /\ err \in ItemErrors)) =>
    /\ \A i \in 1..n_items :
         Cardinality({k \in 1..Len(calls) :
                        calls[k].op = "Image.open" /\ calls[k].path = <<"img", i>>}) = 1
    /\ Count(calls, "get_image_features") <= n_items
    /\ Count(calls, "insert") <= n_items
    /\ Reports = 1

\* The calls a step adds to the call log.
NewCalls == SubSeq(calls', Len(calls) + 1, Len(calls'))

\* C15: wherever the loop stops, the rows of the target collection that
\* carry a dataset image are exactly the records of the acknowledged
\* inserts, in order, each a whole record; and a step of the loop leaves
\* the store as it is or appends the one record of an insert the store
\* acknowledged to the rows of the target collection: no row stored earlier
\* is removed or changed, and no other collection is touched.
C15_CleanAbandonment ==
  /\ [](pc \in {"insert_data", "done", "failed"} =>
          /\ DatasetRows = AckedRecords
          /\ \A k \in 1..Len(DatasetRows) :
               /\ DOMAIN DatasetRows[k] = {"filename", "caption", "vector_field", "vector"}
               /\ Len(DatasetRows[k].vector) = store[argv.collection_name].dimension)
  /\ [][pc = "insert_data" =>
          LET n == Len(NewCalls)
              stored == n > 0 /\ NewCalls[n].op = "insert" /\ NewCalls[n].ok
                          /\ NewCalls[n].insert_count >= 1
          IN IF stored
             THEN store' = [store EXCEPT ![argv.collection_name].rows =
                                           Append(@, NewCalls[n].data[1])]
             ELSE store' = store]_vars

\* C15 witness: a run stopped by an error at its third item, after two
\* records were stored behind the row the collection already had.
C15_Witness ==
  /\ pc = "failed"
  /\ err \in ItemErrors
  /\ idx = 2
  /\ Len(DatasetRows) = 2
  /\ Len(store[argv.collection_name].rows) = 3

\* C16: in a create_collection call with delete_existing_collection true on
\* a name that exists: if the store accepts the drop and rejects the
\* create, the call raises and the name is absent from the store
\* afterwards, every other collection as it was; if the store rejects the
\* drop, the call raises, no create is issued and the store is unchanged.
C16_NonAtomicReplacement ==
  \A k \in 1..Len(hist) :
    LET h == hist[k]
        name == h.args.collection_name
    IN (h.args.delete_existing_collection /\ name \in DOMAIN h.before) =>
         /\ Len(h.calls) >= 2 /\ h.calls[2].op = "drop_collection"
         /\ ~h.calls[2].ok =>
              /\ h.raised
              /\ Count(h.calls, "create_collection") = 0
              /\ h.after = h.before
         /\ (h.calls[2].ok /\ Len(h.calls) = 3 /\ ~h.calls[3].ok) =>
              /\ h.raised
              /\ name \notin DOMAIN h.after
              /\ DOMAIN h.after = (DOMAIN h.before) \ {name}
              /\ \A n \in DOMAIN h.after : h.after[n] = h.before[n]

\* C16 witness: a replacement whose create was rejected after the drop, on
\* a collection that had a row, and a later call whose drop was rejected.
C16_Witness ==
  /\ Len(hist) = 2
  /\ hist[1].args.delete_existing_collection
  /\ hist[1].args.collection_name \in DOMAIN hist[1].before
  /\ hist[1].args.dimension > 0
  /\ Len(hist[1].calls) = 3 /\ hist[1].calls[2].ok /\ ~hist[1].calls[3].ok
  /\ hist[1].args.collection_name \notin DOMAIN hist[1].after
  /\ hist[2].args.delete_existing_collection
  /\ Len(hist[2].calls) = 2 /\ ~hist[2].calls[2].ok
  /\ hist[2].after = hist[2].before

\* C17: an iteration whose insert is acknowledged with insert_count <= 0
\* leaves inserted_count as it was, one acknowledged with insert_count = c
\* > 0 adds exactly c, and an iteration that ends in an error before the
\* acknowledgment does not write the counter.
C17_CounterFrame ==
  \A k \in 1..Len(hist) :
    LET h == hist[k] IN
    /\ h.err # "none" => h.after = h.before
    /\ (h.err = "none" /\ h.ack <= 0) => h.after = h.before
    /\ (h.err = "none" /\ h.ack > 0) => h.after = h.before + h.ack
    /\ k = Len(hist) => h.after = inserted_count
    /\ k < Len(hist) => h.after = hist[k + 1].before

\* C17 witness: acknowledgments of 2, then -1, then a failed load, the
\* counter at 2 throughout.
C17_Witness ==
  /\ Len(hist) = 3
  /\ hist[1].err = "none" /\ hist[1].ack = 2
  /\ hist[2].err = "none" /\ hist[2].ack = -1
  /\ hist[3].err = "ItemLoadError"
  /\ inserted_count = 2

====
